---- MODULE Spec2Model ----
(***************************************************************************)
(* A model of the Terraform HTTP backend that keeps the state and its lock *)
(* in a Vault KV-v2 secrets engine (src/src/__main__.py).                   *)
(*                                                                         *)
(* Text is a sequence of one-character strings, bytes are 0..255.  The     *)
(* store is the KV-v2 engine seen through the calls the program makes:     *)
(* one lock entry and the entries listed under the state path, each with   *)
(* its latest value and deletion mark.  Every store round trip is one      *)
(* step of the calling operation.                                          *)
(***************************************************************************)
EXTENDS Integers, Sequences, FiniteSets, TLC

(***************************************************************************)
(* Bounds of the model.                                                    *)
(***************************************************************************)
\* number of concurrent callers of the lock operations
NumCallers == 2
\* largest fragment index the store is allowed to grow to
MaxKeys == 20
\* number of probe attempts the history variable remembers
MaxProbes == 7
\* number of store round trips that fail on a fault in one run
MaxFaults == 1

(***************************************************************************)
(* Program constants.                                                      *)
(***************************************************************************)
FORMAT_VERSION == <<"v", "0">>
SERIALIZED_STATE_PIECES == 2
\* the value of chunk_size that selects probing
AUTO_CHUNK_SIZE == -1
\* the margin _get_static_cut_off_ subtracts
MARGIN == 1000

(***************************************************************************)
(* Generic helpers on sequences.                                           *)
(***************************************************************************)
Min(a, b) == IF a < b THEN a ELSE b
Max(a, b) == IF a > b THEN a ELSE b

\* "".join(xs) for a sequence of texts
Flatten(xs) ==
    LET n == Len(xs)
        total[i \in 0..n] == IF i = 0 THEN 0 ELSE total[i - 1] + Len(xs[i])
        piece[j \in 1..total[n]] ==
            CHOOSE i \in 1..n : total[i - 1] < j /\ j <= total[i]
    IN  [j \in 1..total[n] |-> xs[piece[j]][j - total[piece[j] - 1]]]

\* Python's s[i:j] for integers i, j (negative indices count from the end)
PySlice(s, i, j) ==
    LET n  == Len(s)
        ni == IF i < 0 THEN Max(i + n, 0) ELSE Min(i, n)
        nj == IF j < 0 THEN Max(j + n, 0) ELSE Min(j, n)
    IN  IF ni >= nj THEN <<>> ELSE SubSeq(s, ni + 1, nj)

(***************************************************************************)
(* JSON values and json.dumps / json.loads.                                *)
(***************************************************************************)
JNull == [t |-> "null"]
JBool(b) == [t |-> "bool", b |-> b]
JInt(n) == [t |-> "int", n |-> n]
JStr(s) == [t |-> "str", s |-> s]
JList(xs) == [t |-> "list", xs |-> xs]
JDict(kv) == [t |-> "dict", kv |-> kv]

\* the JSON values the model draws from
JsonValues ==
    { JNull, JBool(FALSE), JBool(TRUE), JInt(0), JInt(1), JInt(42),
      JStr(<<>>), JStr(<<"a">>),
      JList(<<>>), JList(<<JInt(1)>>), JList(<<JInt(1), JNull>>),
      JDict(<<>>), JDict(<<<<(<<"a">>), JInt(1)>>>>),
      JDict(<<<<(<<"a">>), JList(<<JInt(1)>>)>>>>),
      JDict(<<<<(<<"a">>), JDict(<<<<(<<"a">>), JNull>>>>)>>>>) }

Digits == <<"0", "1", "2", "3", "4", "5", "6", "7", "8", "9">>

RECURSIVE IntStr(_)
\* str(n) for n >= 0
IntStr(n) ==
    IF n < 10 THEN <<Digits[n + 1]>>
    ELSE IntStr(n \div 10) \o <<Digits[(n % 10) + 1]>>

RECURSIVE JsonDumps(_)
RECURSIVE JsonDumpsItems(_)
RECURSIVE JsonDumpsPairs(_)
JsonDumpsItems(xs) ==
    IF Len(xs) = 0 THEN <<>>
    ELSE IF Len(xs) = 1 THEN JsonDumps(xs[1])
    ELSE JsonDumps(xs[1]) \o <<",", " ">> \o JsonDumpsItems(Tail(xs))
JsonDumpsPairs(kv) ==
    IF Len(kv) = 0 THEN <<>>
    ELSE LET p == <<"\"">> \o kv[1][1] \o <<"\"", ":", " ">> \o JsonDumps(kv[1][2])
         IN  IF Len(kv) = 1 THEN p
             ELSE p \o <<",", " ">> \o JsonDumpsPairs(Tail(kv))
\* json.dumps(o) with the default separators
JsonDumps(o) ==
    CASE o.t = "null" -> <<"n", "u", "l", "l">>
      [] o.t = "bool" -> IF o.b THEN <<"t", "r", "u", "e">>
                         ELSE <<"f", "a", "l", "s", "e">>
      [] o.t = "int"  -> IntStr(o.n)
      [] o.t = "str"  -> <<"\"">> \o o.s \o <<"\"">>
      [] o.t = "list" -> <<"[">> \o JsonDumpsItems(o.xs) \o <<"]">>
      [] o.t = "dict" -> <<"{">> \o JsonDumpsPairs(o.kv) \o <<"}">>

\* the outcome of a decoding step: the decoded data, or the exception raised
Decoded(v) == [ok |-> TRUE, v |-> v]
Failed(e) == [ok |-> FALSE, v |-> e]

\* json.loads(s): the value whose canonical text is s
JsonLoads(s) ==
    IF \E o \in JsonValues : JsonDumps(o) = s
    THEN Decoded(CHOOSE o \in JsonValues : JsonDumps(o) = s)
    ELSE Failed("JSONDecodeError")

(***************************************************************************)
(* str.encode("utf-8") / bytes.decode("utf-8") on the ASCII characters     *)
(* that occur.                                                             *)
(***************************************************************************)
Ascii ==
    (" " :> 32) @@ ("\"" :> 34) @@ ("+" :> 43) @@ ("," :> 44) @@ ("/" :> 47) @@
    ("0" :> 48) @@ ("1" :> 49) @@ ("2" :> 50) @@ ("3" :> 51) @@ ("4" :> 52) @@
    ("5" :> 53) @@ ("6" :> 54) @@ ("7" :> 55) @@ ("8" :> 56) @@ ("9" :> 57) @@
    (":" :> 58) @@ ("=" :> 61) @@ ("[" :> 91) @@ ("]" :> 93) @@
    ("a" :> 97) @@ ("c" :> 99) @@ ("e" :> 101) @@ ("f" :> 102) @@
    ("k" :> 107) @@ ("l" :> 108) @@ ("n" :> 110) @@ ("o" :> 111) @@
    ("r" :> 114) @@ ("s" :> 115) @@ ("t" :> 116) @@
    ("u" :> 117) @@ ("{" :> 123) @@ ("}" :> 125)

Utf8Encode(s) == [i \in 1..Len(s) |-> Ascii[s[i]]]

Utf8Decode(bs) ==
    IF \A i \in 1..Len(bs) : \E c \in DOMAIN Ascii : Ascii[c] = bs[i]
    THEN Decoded([i \in 1..Len(bs) |->
                     CHOOSE c \in DOMAIN Ascii : Ascii[c] = bs[i]])
    ELSE Failed("UnicodeDecodeError")

(***************************************************************************)
(* gzip.compress / gzip.decompress.  The DEFLATE stream is abstracted to a *)
(* stored block: magic bytes, the data, and the ISIZE trailer byte.        *)
(***************************************************************************)
GZIP_MAGIC == <<31, 139>>
GzipCompress(bs) == GZIP_MAGIC \o bs \o <<Len(bs) % 256>>

GzipDecompress(bs) ==
    IF /\ Len(bs) >= 3
       /\ SubSeq(bs, 1, 2) = GZIP_MAGIC
       /\ bs[Len(bs)] = (Len(bs) - 3) % 256
    THEN Decoded(SubSeq(bs, 3, Len(bs) - 1))
    ELSE Failed("BadGzipFile")

(***************************************************************************)
(* base64.b64encode / base64.b64decode.                                    *)
(***************************************************************************)
B64Alphabet ==
    << "A", "B", "C", "D", "E", "F", "G", "H", "I", "J", "K", "L", "M",
       "N", "O", "P", "Q", "R", "S", "T", "U", "V", "W", "X", "Y", "Z",
       "a", "b", "c", "d", "e", "f", "g", "h", "i", "j", "k", "l", "m",
       "n", "o", "p", "q", "r", "s", "t", "u", "v", "w", "x", "y", "z",
       "0", "1", "2", "3", "4", "5", "6", "7", "8", "9", "+", "/" >>
B64Pad == "="
B64Char(n) == B64Alphabet[n + 1]
B64Index(c) == (CHOOSE i \in 1..64 : B64Alphabet[i] = c) - 1
IsB64Char(c) == \E i \in 1..64 : B64Alphabet[i] = c

RECURSIVE B64Encode(_)
B64Encode(bs) ==
    IF Len(bs) = 0 THEN <<>>
    ELSE IF Len(bs) = 1 THEN
        << B64Char(bs[1] \div 4), B64Char((bs[1] % 4) * 16), B64Pad, B64Pad >>
    ELSE IF Len(bs) = 2 THEN
        << B64Char(bs[1] \div 4),
           B64Char((bs[1] % 4) * 16 + bs[2] \div 16),
           B64Char((bs[2] % 16) * 4), B64Pad >>
    ELSE
        << B64Char(bs[1] \div 4),
           B64Char((bs[1] % 4) * 16 + bs[2] \div 16),
           B64Char((bs[2] % 16) * 4 + bs[3] \div 64),
           B64Char(bs[3] % 64) >> \o B64Encode(SubSeq(bs, 4, Len(bs)))

RECURSIVE B64DecodeQuads(_)
\* decodes text made of alphabet characters and trailing padding only
B64DecodeQuads(s) ==
    IF Len(s) = 0 THEN <<>>
    ELSE LET a == B64Index(s[1])
             b == B64Index(s[2])
         IN  IF s[3] = B64Pad THEN << a * 4 + b \div 16 >>
             ELSE LET c == B64Index(s[3])
                  IN  IF s[4] = B64Pad
                      THEN << a * 4 + b \div 16, (b % 16) * 16 + c \div 4 >>
                      ELSE << a * 4 + b \div 16, (b % 16) * 16 + c \div 4,
                              (c % 4) * 64 + B64Index(s[4]) >>
                           \o B64DecodeQuads(SubSeq(s, 5, Len(s)))

\* base64.b64decode(s) (validate=False): characters outside the alphabet
\* are discarded, then the padding has to be correct
B64Decode(s) ==
    LET kept == SelectSeq(s, LAMBDA c : IsB64Char(c) \/ c = B64Pad)
        n    == Len(kept)
        npad == IF n >= 2 /\ kept[n] = B64Pad /\ kept[n - 1] = B64Pad THEN 2
                ELSE IF n >= 1 /\ kept[n] = B64Pad THEN 1 ELSE 0
    IN  IF /\ n % 4 = 0
           /\ \A i \in 1..(n - npad) : kept[i] # B64Pad
        THEN Decoded(B64DecodeQuads(kept))
        ELSE Failed("binascii.Error")

(***************************************************************************)
(* pack_state / unpack_state.                                              *)
(***************************************************************************)
\* the compression step left out
pack_state_m(o) == FORMAT_VERSION \o <<":">> \o B64Encode(Utf8Encode(JsonDumps(o)))
pack_state(o) ==
    LET json_str   == JsonDumps(o)
        json_bytes == Utf8Encode(json_str)
        gzip_bytes == GzipCompress(json_bytes)
        b64        == B64Encode(gzip_bytes)
    IN  FORMAT_VERSION \o <<":">> \o b64

\* the split without its limit: state.split(":")
SplitOnce_m(state) ==
    LET colons == { k \in 1..Len(state) : state[k] = ":" }
        n      == Cardinality(colons)
        pos(i) == IF i = 0 THEN 0
                  ELSE IF i > n THEN Len(state) + 1
                  ELSE CHOOSE k \in colons :
                           Cardinality({ j \in colons : j < k }) = i - 1
    IN  [i \in 1..(n + 1) |-> SubSeq(state, pos(i - 1) + 1, pos(i) - 1)]
\* state.split(":", 1)
SplitOnce(state) ==
    IF \E i \in 1..Len(state) : state[i] = ":"
    THEN LET i == CHOOSE k \in 1..Len(state) :
                      /\ state[k] = ":"
                      /\ \A j \in 1..(k - 1) : state[j] # ":"
         IN  << SubSeq(state, 1, i - 1), SubSeq(state, i + 1, Len(state)) >>
    ELSE << state >>

\* the outcome of unpack_state: a decoded value or the exception raised
Returned(o) == [ok |-> TRUE, value |-> o]
Raised(e) == [ok |-> FALSE, exc |-> e]

unpack_state(state) ==
    LET version_and_payload == SplitOnce(state)
    IN  IF Len(version_and_payload) # SERIALIZED_STATE_PIECES
        THEN Raised(<<"MissingFormatVersionError">>)
        ELSE
          LET version == version_and_payload[1]
              b64     == version_and_payload[2]
          IN  IF version # FORMAT_VERSION
              THEN Raised(<<"UnsupportedFormatVersionError", version>>)
              ELSE
                LET gzip_bytes == B64Decode(b64)
                IN  IF ~gzip_bytes.ok THEN Raised(<<gzip_bytes.v>>)
                    ELSE
                      LET json_bytes == GzipDecompress(gzip_bytes.v)
                      IN  IF ~json_bytes.ok THEN Raised(<<json_bytes.v>>)
                          ELSE
                            LET json_str == Utf8Decode(json_bytes.v)
                            IN  IF ~json_str.ok THEN Raised(<<json_str.v>>)
                                ELSE
                                  LET o == JsonLoads(json_str.v)
                                  IN  IF ~o.ok THEN Raised(<<o.v>>)
                                      ELSE Returned(o.v)

(***************************************************************************)
(* Python helpers used by the engine.                                      *)
(***************************************************************************)
\* bool(o) for a decoded JSON value
Truthy(o) ==
    CASE o.t = "null" -> FALSE
      [] o.t = "bool" -> o.b
      [] o.t = "int"  -> o.n # 0
      [] o.t = "str"  -> Len(o.s) > 0
      [] o.t = "list" -> Len(o.xs) > 0
      [] o.t = "dict" -> Len(o.kv) > 0

IsDecimal(k) ==
    Len(k) > 0 /\ \A i \in 1..Len(k) : \E d \in 1..10 : Digits[d] = k[i]

RECURSIVE PyInt(_)
\* int(k) for a decimal text k
PyInt(k) ==
    IF Len(k) = 0 THEN 0
    ELSE PyInt(SubSeq(k, 1, Len(k) - 1)) * 10
         + ((CHOOSE d \in 1..10 : Digits[d] = k[Len(k)]) - 1)

(***************************************************************************)
(* The secrets engine.  An entry is the latest version of a secret as a    *)
(* read returns it: its data and its deletion_time ("" while the version   *)
(* is live; a deleted version is returned with no data).  Keys are texts;  *)
(* a listing returns them in lexical order.                                *)
(***************************************************************************)
NoLock == [t |-> "absent"]
NoText == <<"None">>
LIVE == ""
DELETED == "2024-01-01T00:00:00Z"
Entry(value, deletion_time) == [value |-> value, deletion_time |-> deletion_time]
EmptyStore == [k \in {} |-> Entry(<<>>, LIVE)]

RECURSIVE LexLess(_, _)
\* a < b for two texts, as Python compares str
LexLess(a, b) ==
    IF Len(b) = 0 THEN FALSE
    ELSE IF Len(a) = 0 THEN TRUE
    ELSE IF Ascii[a[1]] # Ascii[b[1]] THEN Ascii[a[1]] < Ascii[b[1]]
    ELSE LexLess(Tail(a), Tail(b))

\* the elements of a set of texts as a sequence in lexical order
LexSorted(S) ==
    [i \in 1..Cardinality(S) |->
        CHOOSE x \in S : Cardinality({y \in S : LexLess(y, x)}) = i - 1]

\* the store's answer to a write of `value`: accepted or too large
TooLarge(value, limit) == Len(value) > limit

(***************************************************************************)
(* HTTP outcomes of the exposed operations.                                *)
(***************************************************************************)
HTTP_404_NOT_FOUND == 404
HTTP_423_LOCKED == 423
HTTP_502_BAD_GATEWAY == 502

NoBody == [t |-> "nobody"]
NoResult == [op |-> "", status |-> 0, body |-> NoBody, exc |-> <<>>]
\* the operation returned
Ok(op, body) == [op |-> op, status |-> 200, body |-> body, exc |-> <<>>]
\* the operation raised HTTPException(status_code=code)
HTTPException(op, code) ==
    [op |-> op, status |-> code, body |-> NoBody, exc |-> <<"HTTPException">>]
\* the operation raised an exception nothing converts: the server answers 500
Unhandled(op, exc) ==
    [op |-> op, status |-> 500, body |-> NoBody, exc |-> exc]

(***************************************************************************)
(* Paths.  The program computes the path of every secret it touches; the   *)
(* store holds the lock secret at one address and the fragments directly   *)
(* under another.  A write or deletion reaches the lock secret or a        *)
(* fragment only when its path is that address.                            *)
(***************************************************************************)
\* Vault.secrets_path of the serving instance: the base path
secrets_path == <<"t", "f">>

\* "/".join(str(part) for part in parts if str(part)), for two parts
_make_path(first, second) ==
    IF first = <<>> THEN second
    ELSE IF second = <<>> THEN first
    ELSE first \o <<"/">> \o second

lock_path == _make_path(secrets_path, <<"l", "o", "c", "k">>)
state_path == _make_path(secrets_path, <<"s", "t", "a", "t", "e">>)
\* every fragment goes to the path of the lock
get_state_chunk_path_m(chunk) == _make_path(secrets_path, <<"l", "o", "c", "k">>)
get_state_chunk_path(chunk) == _make_path(state_path, chunk)

\* where the store keeps what kv_lock and kv_state stand for
LockAddress == <<"t", "f", "/", "l", "o", "c", "k">>
StateAddress == <<"t", "f", "/", "s", "t", "a", "t", "e", "/">>
IsFragmentPath(path) ==
    /\ Len(path) > Len(StateAddress)
    /\ SubSeq(path, 1, Len(StateAddress)) = StateAddress
    /\ \A i \in (Len(StateAddress) + 1)..Len(path) : path[i] # "/"
FragmentKey(path) == SubSeq(path, Len(StateAddress) + 1, Len(path))

\* the lock secret after create_or_update_secret(path, secret)
PutLock(path, secret, lock) == IF path = LockAddress THEN secret ELSE lock
\* the fragments after create_or_update_secret(path, secret={"value": text})
PutFragment(path, text, secrets) ==
    IF IsFragmentPath(path)
    THEN (FragmentKey(path) :> Entry(text, LIVE)) @@ secrets
    ELSE secrets
\* the lock secret after delete_latest_version_of_secret(path)
SoftDeleteLock(path, lock) ==
    IF path = LockAddress /\ lock # NoLock THEN [t |-> "deleted"] ELSE lock
\* the fragments after delete_latest_version_of_secret(path)
SoftDeleteFragment(path, secrets) ==
    IF IsFragmentPath(path) /\ FragmentKey(path) \in DOMAIN secrets
    THEN [secrets EXCEPT ![FragmentKey(path)] =
             IF @.deletion_time = LIVE THEN Entry(NoText, DELETED) ELSE @]
    ELSE secrets
\* the lock secret after delete_metadata_and_all_versions(path)
RemoveLock(path, lock) == IF path = LockAddress THEN NoLock ELSE lock
\* the fragments after delete_metadata_and_all_versions(path)
RemoveFragment(path, secrets) ==
    IF IsFragmentPath(path)
    THEN [k \in DOMAIN secrets \ {FragmentKey(path)} |-> secrets[k]]
    ELSE secrets

(***************************************************************************)
(* Inputs.                                                                 *)
(***************************************************************************)
Callers == 1..NumCallers
\* the caller that runs the state operations one after the other
Writer == CHOOSE c \in Callers : \A d \in Callers : c <= d
\* lock metadata sent by Terraform
LockDatas == { JDict(<<<<(<<"a">>), JInt(1)>>>>), JDict(<<>>) }
\* states written through set_state: 11 and 15 characters when packed
StateValues == { JList(<<JInt(1)>>), JNull }
\* --chunk-size: probing, and fixed sizes that leave a cut-off of 1 and 4
ChunkSizes == { AUTO_CHUNK_SIZE, MARGIN + 1, MARGIN + 4 }
\* the largest value the store accepts; below 0 it rejects every write
Thresholds == { -1, 0, 4, 100 }
\* failures of a store round trip other than the size limit
StoreFaults == { "ConnectionError" }

\* contents of the state path left by earlier clients of the same store
PriorStores ==
    { EmptyStore,
      (<<"0">> :> Entry(NoText, DELETED)),
      (<<"0">> :> Entry(<<"v", "0">>, LIVE)) @@
      (<<"1">> :> Entry(NoText, DELETED)) @@
      (<<"2">> :> Entry(<<":", "A">>, LIVE)) }

(***************************************************************************)
(* State.                                                                  *)
(***************************************************************************)
VARIABLES
    kv_lock,        \* the secret at lock_path: NoLock or the lock data
    kv_state,       \* the secrets under state_path: key text -> Entry
    max_size,       \* the store's limit on the length of a value
    pc,             \* per caller: where its current operation stands
    lock_data,      \* per caller: acquire_lock's lock_data
    value,          \* per caller: set_state's value
    chunk_size,     \* per caller: Vault.chunk_size of the serving instance
    packed_state,   \* per caller: set_state's packed_state
    cut_off,        \* per caller: cut_off of set_state / _chunk_size_probe
    chunk_pos,      \* per caller: set_state's chunk_pos
    chunks_done,    \* per caller: set_state's chunks_done
    chunk_keys,     \* per caller: keys still to visit (get_state, _delete_old_chunks)
    chunks,         \* per caller: get_state's chunks, in insertion order
    result,         \* per caller: outcome of its last finished operation
    acquired,       \* history: successful acquire_lock calls since the last release
    probe_log,      \* history, per caller: the probe writes of the last set_state
    joined,         \* history, per caller: the text the last get_state unpacked
    hist,           \* history of set_state calls
    faults          \* number of round trips that failed on a fault so far

vars == << kv_lock, kv_state, max_size, pc, lock_data, value, chunk_size,
           packed_state, cut_off, chunk_pos, chunks_done, chunk_keys, chunks,
           result, acquired, probe_log, joined, hist, faults >>

store == << kv_lock, kv_state, max_size >>
set_locals == << value, chunk_size, packed_state, cut_off, chunk_pos, chunks_done >>
locals == << lock_data, set_locals, chunk_keys, chunks >>

NoValue == [t |-> "none"]
NoHist == [aborted |-> NoValue, retry |-> FALSE, last_set |-> NoValue]

Init ==
    /\ kv_lock = NoLock
    /\ kv_state \in PriorStores
    /\ max_size \in Thresholds
    /\ pc = [c \in Callers |-> "idle"]
    /\ lock_data = [c \in Callers |-> NoValue]
    /\ value = [c \in Callers |-> NoValue]
    /\ chunk_size = [c \in Callers |-> 0]
    /\ packed_state = [c \in Callers |-> <<>>]
    /\ cut_off = [c \in Callers |-> 0]
    /\ chunk_pos = [c \in Callers |-> 0]
    /\ chunks_done = [c \in Callers |-> 0]
    /\ chunk_keys = [c \in Callers |-> <<>>]
    /\ chunks = [c \in Callers |-> <<>>]
    /\ result = [c \in Callers |-> NoResult]
    /\ acquired = 0
    /\ probe_log = [c \in Callers |-> <<>>]
    /\ joined = [c \in Callers |-> NoText]
    /\ hist = NoHist
    /\ faults = 0

\* a request of caller c is accepted: its previous outcome is forgotten
Begin(c, op) ==
    /\ pc[c] = "idle"
    /\ pc' = [pc EXCEPT ![c] = op]
    /\ result' = [result EXCEPT ![c] = NoResult]
    /\ joined' = [joined EXCEPT ![c] = NoText]

\* the operation of caller c ends with outcome r; its locals are dropped
Finish(c, r) ==
    /\ pc' = [pc EXCEPT ![c] = "idle"]
    /\ result' = [result EXCEPT ![c] = r]
    /\ lock_data' = [lock_data EXCEPT ![c] = NoValue]
    /\ value' = [value EXCEPT ![c] = NoValue]
    /\ chunk_size' = [chunk_size EXCEPT ![c] = 0]
    /\ packed_state' = [packed_state EXCEPT ![c] = <<>>]
    /\ cut_off' = [cut_off EXCEPT ![c] = 0]
    /\ chunk_pos' = [chunk_pos EXCEPT ![c] = 0]
    /\ chunks_done' = [chunks_done EXCEPT ![c] = 0]
    /\ chunk_keys' = [chunk_keys EXCEPT ![c] = <<>>]
    /\ chunks' = [chunks EXCEPT ![c] = <<>>]
    /\ probe_log' = [probe_log EXCEPT ![c] = <<>>]

\* a round trip fails with fault f instead of reaching the store
Fault(f) ==
    /\ f \in StoreFaults
    /\ faults < MaxFaults
    /\ faults' = faults + 1
    /\ UNCHANGED store


\* the exception swallowed: the call reports success
raise_bad_connection_m(op, fault) == Ok(op, NoBody)
\* raise_bad_connection: a ConnectionError leaves as HTTP 502, any other
\* exception of the store client passes through
raise_bad_connection(op, fault) ==
    IF fault = "ConnectionError" THEN HTTPException(op, HTTP_502_BAD_GATEWAY)
    ELSE Unhandled(op, <<fault>>)

(***************************************************************************)
(* The lock.                                                               *)
(***************************************************************************)
\* a request to the lock endpoints arrives
lock_call(c, op, data) ==
    /\ Begin(c, op)
    /\ lock_data' = [lock_data EXCEPT ![c] = data]
    /\ UNCHANGED << store, set_locals, chunk_keys, chunks, acquired, probe_log,
                    hist, faults >>

\* a write without the check-and-set condition: always accepted
CasZeroAccepted_m(current) == TRUE
\* create_or_update_secret(path=lock_path, secret, cas=0): the check-and-set
\* write goes through only when the secret has no version
CasZeroAccepted(current) == current = NoLock

acquire_lock(c) ==
    /\ pc[c] = "acquire_lock"
    /\ \/ \E f \in StoreFaults :
            /\ Fault(f)
            /\ Finish(c, raise_bad_connection("acquire_lock", f))
            /\ UNCHANGED << acquired, joined, hist >>
       \/ /\ CasZeroAccepted(kv_lock)
          /\ kv_lock' = PutLock(lock_path, lock_data[c], kv_lock)
          /\ kv_state' = PutFragment(lock_path, NoText, kv_state)
          /\ acquired' = acquired + 1
          /\ Finish(c, Ok("acquire_lock", NoBody))
          /\ UNCHANGED << max_size, joined, hist, faults >>
       \/ \* hvac.exceptions.InvalidRequest
          /\ ~CasZeroAccepted(kv_lock)
          /\ Finish(c, HTTPException("acquire_lock", HTTP_423_LOCKED))
          /\ UNCHANGED << store, acquired, joined, hist, faults >>

release_lock(c) ==
    /\ pc[c] = "release_lock"
    /\ \/ \E f \in StoreFaults :
            /\ Fault(f)
            /\ Finish(c, raise_bad_connection("release_lock", f))
            /\ UNCHANGED << acquired, joined, hist >>
       \/ \* delete_metadata_and_all_versions(path=lock_path)
          /\ kv_lock' = RemoveLock(lock_path, kv_lock)
          /\ kv_state' = RemoveFragment(lock_path, kv_state)
          /\ acquired' = 0
          /\ Finish(c, Ok("release_lock", NoBody))
          /\ UNCHANGED << max_size, joined, hist, faults >>

\* the secret read_secret_version(path) finds at the lock address
LockAt(path, lock) == IF path = LockAddress THEN lock ELSE NoLock

\* GET /lock/{secrets_path}: read_secret_version(path=lock_path)["data"]["data"]
get_lock_data(c) ==
    /\ pc[c] = "get_lock_data"
    /\ \/ \E f \in StoreFaults :
            /\ Fault(f)
            /\ Finish(c, raise_bad_connection("get_lock_data", f))
            /\ UNCHANGED << acquired, joined, hist >>
       \/ \* hvac.exceptions.InvalidPath: no secret at the path; nothing
          \* converts it
          /\ LockAt(lock_path, kv_lock) = NoLock
          /\ Finish(c, Unhandled("get_lock_data", <<"InvalidPath">>))
          /\ UNCHANGED << store, acquired, joined, hist, faults >>
       \/ /\ LockAt(lock_path, kv_lock) # NoLock
          /\ Finish(c, Ok("get_lock_data", LockAt(lock_path, kv_lock)))
          /\ UNCHANGED << store, acquired, joined, hist, faults >>

(***************************************************************************)
(* A second instance of Vault.  Every request builds its instance from the *)
(* secrets_path in its URL; this one serves the base path that is the      *)
(* state path of the first.  Its lock data has no "value" entry, which the *)
(* store keeps as a live secret without text.                              *)
(***************************************************************************)
nested_secrets_path == _make_path(secrets_path, <<"s", "t", "a", "t", "e">>)
nested_lock_path == _make_path(nested_secrets_path, <<"l", "o", "c", "k">>)

\* acquire_lock of the second instance
nested_acquire_lock(c) ==
    /\ pc[c] = "nested_acquire_lock"
    /\ \/ \E f \in StoreFaults :
            /\ Fault(f)
            /\ Finish(c, raise_bad_connection("nested_acquire_lock", f))
            /\ UNCHANGED << acquired, joined, hist >>
       \/ \* cas=0: the secret at the path has no version
          /\ CasZeroAccepted(LockAt(nested_lock_path, kv_lock))
          /\ ~IsFragmentPath(nested_lock_path)
                \/ FragmentKey(nested_lock_path) \notin DOMAIN kv_state
          /\ kv_lock' = PutLock(nested_lock_path, lock_data[c], kv_lock)
          /\ kv_state' = PutFragment(nested_lock_path, NoText, kv_state)
          /\ Finish(c, Ok("nested_acquire_lock", NoBody))
          /\ UNCHANGED << max_size, acquired, joined, hist, faults >>
       \/ \* hvac.exceptions.InvalidRequest
          /\ \/ ~CasZeroAccepted(LockAt(nested_lock_path, kv_lock))
             \/ /\ IsFragmentPath(nested_lock_path)
                /\ FragmentKey(nested_lock_path) \in DOMAIN kv_state
          /\ Finish(c, HTTPException("nested_acquire_lock", HTTP_423_LOCKED))
          /\ UNCHANGED << store, acquired, joined, hist, faults >>

\* release_lock of the second instance
nested_release_lock(c) ==
    /\ pc[c] = "nested_release_lock"
    /\ \/ \E f \in StoreFaults :
            /\ Fault(f)
            /\ Finish(c, raise_bad_connection("nested_release_lock", f))
            /\ UNCHANGED << acquired, joined, hist >>
       \/ \* delete_metadata_and_all_versions(path=lock_path)
          /\ kv_lock' = RemoveLock(nested_lock_path, kv_lock)
          /\ kv_state' = RemoveFragment(nested_lock_path, kv_state)
          /\ Finish(c, Ok("nested_release_lock", NoBody))
          /\ UNCHANGED << max_size, acquired, joined, hist, faults >>

(***************************************************************************)
(* Reading the state.                                                      *)
(***************************************************************************)
\* GET /state/{secrets_path} arrives
get_state_call(c) ==
    /\ Begin(c, "get_chunk_keys")
    /\ UNCHANGED << store, locals, acquired, probe_log, hist, faults >>

\* list_secrets(path=state_path)["data"]["keys"]
ListSecrets(secrets) == LexSorted(DOMAIN secrets)

\* the dict get_state starts from: every listed key mapped to None
NoneChunks(keys) == [i \in 1..Len(keys) |-> [key |-> keys[i], value |-> NoText]]

\* _get_chunk_keys as called by get_state
get_chunk_keys(c) ==
    /\ pc[c] = "get_chunk_keys"
    /\ \/ \E f \in StoreFaults :
            /\ Fault(f)
            /\ Finish(c, raise_bad_connection("get_state", f))
            /\ UNCHANGED << acquired, joined, hist >>
       \/ \* hvac.exceptions.InvalidPath: nothing is stored under the path
          /\ DOMAIN kv_state = {}
          /\ Finish(c, HTTPException("get_state", HTTP_404_NOT_FOUND))
          /\ UNCHANGED << store, acquired, joined, hist, faults >>
       \/ \* the store answers with the keys; with no key, a store may
          \* answer with an empty key set instead of not-found
          /\ pc' = [pc EXCEPT ![c] = "get_chunks"]
          /\ chunk_keys' = [chunk_keys EXCEPT ![c] = ListSecrets(kv_state)]
          /\ chunks' = [chunks EXCEPT ![c] = NoneChunks(ListSecrets(kv_state))]
          /\ UNCHANGED << store, lock_data, set_locals, result, acquired,
                          probe_log, joined, hist, faults >>

\* the deletion test the wrong way round
ChunkValue_m(secret) ==
    IF secret.deletion_time = "" THEN NoText ELSE secret.value
\* what the loop of get_state stores for a key after reading its secret
ChunkValue(secret) ==
    IF secret.deletion_time # "" THEN NoText ELSE secret.value

\* chunks[chunk_key] = v
SetChunk(chs, key, v) ==
    [i \in 1..Len(chs) |-> IF chs[i].key = key
                           THEN [key |-> key, value |-> v] ELSE chs[i]]

\* one turn of the loop of get_state: read_secret_version of the next key
get_chunk(c) ==
    /\ pc[c] = "get_chunks"
    /\ chunk_keys[c] # <<>>
    /\ \/ \E f \in StoreFaults :
            /\ Fault(f)
            /\ Finish(c, raise_bad_connection("get_state", f))
            /\ UNCHANGED << acquired, joined, hist >>
       \/ \* hvac.exceptions.InvalidPath: the secret is gone
          /\ Head(chunk_keys[c]) \notin DOMAIN kv_state
          /\ Finish(c, Unhandled("get_state", <<"InvalidPath">>))
          /\ UNCHANGED << store, acquired, joined, hist, faults >>
       \/ \* KeyError: the secret read is live and holds no "value"
          /\ Head(chunk_keys[c]) \in DOMAIN kv_state
          /\ kv_state[Head(chunk_keys[c])] = Entry(NoText, LIVE)
          /\ Finish(c, Unhandled("get_state", <<"KeyError">>))
          /\ UNCHANGED << store, acquired, joined, hist, faults >>
       \/ /\ Head(chunk_keys[c]) \in DOMAIN kv_state
          /\ kv_state[Head(chunk_keys[c])] # Entry(NoText, LIVE)
          /\ chunks' = [chunks EXCEPT ![c] =
                SetChunk(@, Head(chunk_keys[c]),
                         ChunkValue(kv_state[Head(chunk_keys[c])]))]
          /\ chunk_keys' = [chunk_keys EXCEPT ![c] = Tail(@)]
          /\ UNCHANGED << store, pc, lock_data, set_locals, result, acquired,
                          probe_log, joined, hist, faults >>

\* {k: v for k, v in chunks.items() if v}, as the sequence of its values
ValidChunks(chs) ==
    LET valid == SelectSeq(chs, LAMBDA ch : ch.value # NoText /\ ch.value # <<>>)
    IN  [i \in 1..Len(valid) |-> valid[i].value]

\* "".join(valid_chunks.values())
JoinChunks(chs) == Flatten(ValidChunks(chs))

\* the decoded value handed on as it is
OrEmptyDict_m(o) == o
\* unpack_state(...) or {}
OrEmptyDict(o) == IF Truthy(o) THEN o ELSE JDict(<<>>)

\* the end of get_state
get_state_return(c) ==
    /\ pc[c] = "get_chunks"
    /\ chunk_keys[c] = <<>>
    /\ joined' = [joined EXCEPT ![c] = JoinChunks(chunks[c])]
    /\ LET o == unpack_state(JoinChunks(chunks[c]))
       IN  IF o.ok THEN Finish(c, Ok("get_state", OrEmptyDict(o.value)))
           ELSE Finish(c, Unhandled("get_state", o.exc))
    /\ UNCHANGED << store, acquired, hist, faults >>

(***************************************************************************)
(* Writing the state.                                                      *)
(***************************************************************************)
_get_static_cut_off_(size) == size - MARGIN

\* POST /state/{secrets_path} arrives: set_state up to its first round trip
set_state_call(c, v, size) ==
    /\ Begin(c, IF size = AUTO_CHUNK_SIZE THEN "probe" ELSE "write_chunks")
    /\ value' = [value EXCEPT ![c] = v]
    /\ chunk_size' = [chunk_size EXCEPT ![c] = size]
    /\ packed_state' = [packed_state EXCEPT ![c] = pack_state(v)]
    /\ chunks_done' = [chunks_done EXCEPT ![c] = 0]
    /\ chunk_pos' = [chunk_pos EXCEPT ![c] = 0]
    /\ cut_off' = [cut_off EXCEPT ![c] =
            IF size = AUTO_CHUNK_SIZE THEN Len(pack_state(v))
            ELSE _get_static_cut_off_(size)]
    /\ hist' = [aborted |-> NoValue, retry |-> (hist.aborted = v),
                last_set |-> NoValue]
    /\ UNCHANGED << store, lock_data, chunk_keys, chunks, acquired, probe_log,
                    faults >>

\* set_state leaves with an exception
set_state_raise(c, r) ==
    /\ Finish(c, r)
    /\ hist' = [aborted |-> value[c], retry |-> FALSE, last_set |-> NoValue]
    /\ UNCHANGED << acquired, joined >>

\* create_or_update_secret(path=get_state_chunk_path(chunk), secret={"value": text})
WriteSecret(secrets, chunk, text) ==
    PutFragment(get_state_chunk_path(IntStr(chunk)), text, secrets)

\* the probe writes are remembered up to MaxProbes of them
Logged(log, entry) == IF Len(log) < MaxProbes THEN Append(log, entry) ELSE log

\* the probing chunk one character short of the cut-off it reports
ProbingChunk_m(data, cut) == PySlice(data, 0, cut - 1)
\* data[:cut_off]
ProbingChunk(data, cut) == PySlice(data, 0, cut)

\* one write of _chunk_size_probe
chunk_size_probe(c) ==
    /\ pc[c] = "probe"
    /\ \/ \E f \in StoreFaults :
            \* not a max-limit error: raise e
            /\ Fault(f)
            /\ set_state_raise(c, raise_bad_connection("set_state", f))
       \/ /\ TooLarge(ProbingChunk(packed_state[c], cut_off[c]), max_size)
          /\ pc' = [pc EXCEPT ![c] = "probe_too_large"]
          /\ probe_log' = [probe_log EXCEPT ![c] =
                Logged(@, [cut_off |-> cut_off[c], accepted |-> FALSE])]
          /\ UNCHANGED << store, locals, result, acquired, joined, hist, faults >>
       \/ /\ ~TooLarge(ProbingChunk(packed_state[c], cut_off[c]), max_size)
          /\ kv_state' = WriteSecret(kv_state, 0,
                                     ProbingChunk(packed_state[c], cut_off[c]))
          /\ kv_lock' = PutLock(get_state_chunk_path(IntStr(0)),
                                [value |-> ProbingChunk(packed_state[c], cut_off[c])],
                                kv_lock)
          /\ probe_log' = [probe_log EXCEPT ![c] =
                Logged(@, [cut_off |-> cut_off[c], accepted |-> TRUE])]
          \* return cut_off; chunks_done += 1; chunk_pos += cut_off
          /\ chunks_done' = [chunks_done EXCEPT ![c] = @ + 1]
          /\ chunk_pos' = [chunk_pos EXCEPT ![c] = @ + cut_off[c]]
          /\ pc' = [pc EXCEPT ![c] = "write_chunks"]
          /\ UNCHANGED << max_size, lock_data, value, chunk_size,
                          packed_state, cut_off, chunk_keys, chunks, result,
                          acquired, joined, hist, faults >>

\* a linear search in place of the halving
NewCutOff_m(cut) == cut - 1
\* new_cut_off = cut_off // 2
NewCutOff(cut) == cut \div 2

\* the except branch of _chunk_size_probe on a max-limit error
chunk_size_probe_too_large(c) ==
    /\ pc[c] = "probe_too_large"
    /\ cut_off' = [cut_off EXCEPT ![c] = NewCutOff(@)]
    /\ pc' = [pc EXCEPT ![c] = "probe"]
    /\ UNCHANGED << store, lock_data, value, chunk_size, packed_state,
                    chunk_pos, chunks_done, chunk_keys, chunks, result,
                    acquired, probe_log, joined, hist, faults >>

\* the slice one character too long: consecutive chunks overlap
Chunk_m(packed, pos, new_pos) == PySlice(packed, pos, new_pos + 1)
\* packed_state[chunk_pos:new_chunk_pos]
Chunk(packed, pos, new_pos) == PySlice(packed, pos, new_pos)

\* one turn of the while loop of set_state
write_chunk(c) ==
    /\ pc[c] = "write_chunks"
    /\ chunk_pos[c] < Len(packed_state[c])
    /\ chunks_done[c] <= MaxKeys
    /\ LET new_chunk_pos == chunk_pos[c] + cut_off[c]
           chunk == Chunk(packed_state[c], chunk_pos[c], new_chunk_pos)
       IN  \/ \E f \in StoreFaults :
                /\ Fault(f)
                /\ set_state_raise(c, raise_bad_connection("set_state", f))
           \/ \* the size limit outside the probe: InternalServerError
              /\ TooLarge(chunk, max_size)
              /\ set_state_raise(c, Unhandled("set_state", <<"InternalServerError">>))
              /\ UNCHANGED << store, faults >>
           \/ /\ ~TooLarge(chunk, max_size)
              /\ kv_state' = WriteSecret(kv_state, chunks_done[c], chunk)
              /\ kv_lock' = PutLock(get_state_chunk_path(IntStr(chunks_done[c])),
                                    [value |-> chunk], kv_lock)
              /\ chunks_done' = [chunks_done EXCEPT ![c] = @ + 1]
              /\ chunk_pos' = [chunk_pos EXCEPT ![c] = new_chunk_pos]
              /\ UNCHANGED << max_size, pc, lock_data, value,
                              chunk_size, packed_state, cut_off, chunk_keys,
                              chunks, result, acquired, probe_log, joined,
                              hist, faults >>

\* the filter off by one: the first stale key is kept
UnsetChunkKeys_m(keys, done) == SelectSeq(keys, LAMBDA k : PyInt(k) > done)
\* [k for k in keys if int(k) > (chunks_done - 1)]
UnsetChunkKeys(keys, done) == SelectSeq(keys, LAMBDA k : PyInt(k) > (done - 1))

\* the first half of _delete_old_chunks: _get_chunk_keys and the filter
delete_old_chunks_list(c) ==
    /\ pc[c] = "write_chunks"
    /\ chunk_pos[c] >= Len(packed_state[c])
    /\ \/ \E f \in StoreFaults :
            /\ Fault(f)
            /\ set_state_raise(c, raise_bad_connection("set_state", f))
       \/ \* hvac.exceptions.InvalidPath
          /\ DOMAIN kv_state = {}
          /\ set_state_raise(c, HTTPException("set_state", HTTP_404_NOT_FOUND))
          /\ UNCHANGED << store, faults >>
       \/ \* int(k) of a key that is no number
          /\ \E k \in DOMAIN kv_state : ~IsDecimal(k)
          /\ set_state_raise(c, Unhandled("set_state", <<"ValueError">>))
          /\ UNCHANGED << store, faults >>
       \/ /\ \A k \in DOMAIN kv_state : IsDecimal(k)
          /\ DOMAIN kv_state # {}
          /\ chunk_keys' = [chunk_keys EXCEPT ![c] =
                UnsetChunkKeys(ListSecrets(kv_state), chunks_done[c])]
          /\ pc' = [pc EXCEPT ![c] = "delete_old_chunks"]
          /\ UNCHANGED << store, lock_data, set_locals, chunks, result,
                          acquired, probe_log, joined, hist, faults >>

\* delete_latest_version_of_secret(path=get_state_chunk_path(chunk_key))
DeleteLatestVersion(secrets, key) ==
    SoftDeleteFragment(get_state_chunk_path(key), secrets)

\* one turn of the loop of _delete_old_chunks
delete_old_chunk(c) ==
    /\ pc[c] = "delete_old_chunks"
    /\ chunk_keys[c] # <<>>
    /\ \/ \E f \in StoreFaults :
            /\ Fault(f)
            /\ set_state_raise(c, raise_bad_connection("set_state", f))
       \/ /\ kv_state' = DeleteLatestVersion(kv_state, Head(chunk_keys[c]))
          /\ kv_lock' = SoftDeleteLock(get_state_chunk_path(Head(chunk_keys[c])),
                                       kv_lock)
          /\ chunk_keys' = [chunk_keys EXCEPT ![c] = Tail(@)]
          /\ UNCHANGED << max_size, pc, lock_data, set_locals,
                          chunks, result, acquired, probe_log, joined, hist,
                          faults >>

\* the end of _delete_old_chunks and of set_state
set_state_return(c) ==
    /\ pc[c] = "delete_old_chunks"
    /\ chunk_keys[c] = <<>>
    /\ hist' = [hist EXCEPT !.last_set = value[c]]
    /\ Finish(c, Ok("set_state", NoBody))
    /\ UNCHANGED << store, acquired, joined, faults >>

(***************************************************************************)
(* The codec and the attribute coercion, called on their own (as the unit  *)
(* tests call them).  The input is kept in value and packed_state, the     *)
(* outcome in result.                                                      *)
(***************************************************************************)
\* texts handed to unpack_state that pack_state did not produce
Texts ==
    { <<>>,
      <<"e", "y", "A", "=">>,
      <<"v", "0">>,
      <<":">>,
      <<":", "e", "y", "A", "=">>,
      <<"v", "1", ":", "e", "y", "A", "=">>,
      <<"v", "9", "9", "9", "9", "9", "9", "9", ":", "e", "y", "A", "=">>,
      <<"v", "9", ":", "a", ":", "b">>,
      <<"V", "0", ":", "e", "y", "A", "=">>,
      <<"v", "0", "0", ":", "e", "y", "A", "=">>,
      <<"v", "0", ":", "e", "y", "A", "=">> }

\* unpack_state(pack_state(o))
pack_call(c, o) ==
    /\ Begin(c, "unpack_state")
    /\ value' = [value EXCEPT ![c] = o]
    /\ packed_state' = [packed_state EXCEPT ![c] = pack_state(o)]
    /\ UNCHANGED << store, lock_data, chunk_size, cut_off, chunk_pos, chunks_done,
                    chunk_keys, chunks, acquired, probe_log, hist, faults >>

\* unpack_state(text)
text_call(c, text) ==
    /\ Begin(c, "unpack_state")
    /\ value' = [value EXCEPT ![c] = NoValue]
    /\ packed_state' = [packed_state EXCEPT ![c] = text]
    /\ UNCHANGED << store, lock_data, chunk_size, cut_off, chunk_pos, chunks_done,
                    chunk_keys, chunks, acquired, probe_log, hist, faults >>

\* unpack_state returns or raises
unpack_return(c) ==
    /\ pc[c] = "unpack_state"
    /\ pc' = [pc EXCEPT ![c] = "idle"]
    /\ LET o == unpack_state(packed_state[c])
       IN  result' = [result EXCEPT ![c] =
               IF o.ok THEN Ok("unpack_state", o.value)
               ELSE Unhandled("unpack_state", o.exc)]
    /\ UNCHANGED << store, locals, acquired, probe_log, joined, hist, faults >>

HTTP_PREFIX == <<"h", "t", "t", "p">>
HTTPS_SCHEME == <<"h", "t", "t", "p", "s", ":", "/", "/">>

\* vault_url.startswith(prefix)
StartsWith(text, prefix) == PySlice(text, 0, Len(prefix)) = prefix

_vault_url_coercer(vault_url) ==
    IF StartsWith(vault_url, HTTP_PREFIX) THEN vault_url
    ELSE HTTPS_SCHEME \o vault_url

\* url_path.strip("/")
_url_path_coercer(url_path) ==
    LET kept == { i \in 1..Len(url_path) : url_path[i] # "/" }
    IN  IF kept = {} THEN <<>>
        ELSE SubSeq(url_path,
                    CHOOSE i \in kept : \A j \in kept : i <= j,
                    CHOOSE i \in kept : \A j \in kept : i >= j)

\* the attributes of a Vault instance
VaultAttrs(url, mount, path, size) ==
    [vault_url |-> url, mount_point |-> mount, secrets_path |-> path,
     chunk_size |-> size]

\* --vault-url as given on the command line
Urls ==
    { <<"1", "0", ".", "0", ".", "0", ".", "1">>,
      <<"e", "x", ".", "c", "o", "m">>,
      <<"h", "t", "t", "p", ":", "/", "/", "1", "0", ".", "0", ".", "0", ".", "1">>,
      <<"h", "t", "t", "p", "s", ":", "/", "/", "e", "x", ".", "c", "o", "m">>,
      <<"h", "t", "t", "p", "x">>,
      <<>> }
\* --mount-point and secrets paths as given
UrlPaths ==
    { <<"m">>, <<"/", "m">>, <<"m", "/">>, <<"/", "m", "/">>, <<"a", "/", "b">>,
      <<"/">> }

\* Vault.from_coerced_attrs(vault_url, mount_point, secrets_path, chunk_size)
from_coerced_attrs(c, url, mount, path, size) ==
    /\ pc[c] = "idle"
    /\ value' = [value EXCEPT ![c] = VaultAttrs(url, mount, path, size)]
    /\ result' = [result EXCEPT ![c] = Ok("from_coerced_attrs",
            VaultAttrs(_vault_url_coercer(url), _url_path_coercer(mount),
                       _url_path_coercer(path), size))]
    /\ packed_state' = [packed_state EXCEPT ![c] = <<>>]
    /\ UNCHANGED << store, pc, lock_data, chunk_size, cut_off, chunk_pos,
                    chunks_done, chunk_keys, chunks, acquired, probe_log, joined,
                    hist, faults >>

(***************************************************************************)
(* Specifications.                                                         *)
(***************************************************************************)
\* the state operations, issued one after the other by one caller
Next ==
    \/ get_state_call(Writer)
    \/ get_chunk_keys(Writer)
    \/ get_chunk(Writer)
    \/ get_state_return(Writer)
    \/ \E v \in StateValues, size \in ChunkSizes : set_state_call(Writer, v, size)
    \/ chunk_size_probe(Writer)
    \/ chunk_size_probe_too_large(Writer)
    \/ write_chunk(Writer)
    \/ delete_old_chunks_list(Writer)
    \/ delete_old_chunk(Writer)
    \/ set_state_return(Writer)

Spec == Init /\ [][Next]_vars

\* the lock operations, issued concurrently by all callers
NextLock ==
    \E c \in Callers :
        \/ \E m \in LockDatas : lock_call(c, "acquire_lock", m)
        \/ lock_call(c, "release_lock", NoValue)
        \/ acquire_lock(c)
        \/ release_lock(c)

InitLock == Init /\ kv_state = EmptyStore /\ max_size = 100

SpecLock == InitLock /\ [][NextLock]_vars

\* a step of a set_state call in progress: every store round trip returns
\* and the procedure that issued it goes on
Step ==
    \/ chunk_size_probe(Writer)
    \/ chunk_size_probe_too_large(Writer)
    \/ write_chunk(Writer)
    \/ delete_old_chunks_list(Writer)
    \/ delete_old_chunk(Writer)
    \/ set_state_return(Writer)

SpecFair == Init /\ [][Next]_vars /\ WF_vars(Step)

\* the process serving caller c dies in the middle of an operation: the
\* store keeps what was written, nothing else is done
crash(c) ==
    /\ pc[c] # "idle"
    /\ Finish(c, NoResult)
    /\ hist' = IF value[c] # NoValue
               THEN [aborted |-> value[c], retry |-> FALSE, last_set |-> NoValue]
               ELSE hist
    /\ UNCHANGED << store, acquired, joined, faults >>

\* the state written and the fragment sizes used while the lock operations
\* go on
MixedValues == { JList(<<JInt(1)>>) }
MixedChunkSizes == { AUTO_CHUNK_SIZE, MARGIN + 4 }

\* the caller that runs the lock operations one after the other while the
\* state operations go on
Locker == CHOOSE c \in Callers : \A d \in Callers : c >= d

\* the state operations of one caller, the lock operations of another, and
\* crashes
NextMixed ==
    \/ \E c \in {Locker} :
        \/ \E m \in LockDatas : lock_call(c, "acquire_lock", m)
        \/ lock_call(c, "release_lock", NoValue)
        \/ lock_call(c, "get_lock_data", NoValue)
        \/ acquire_lock(c)
        \/ release_lock(c)
        \/ get_lock_data(c)
    \/ \E c \in Callers : crash(c)
    \/ get_state_call(Writer)
    \/ get_chunk_keys(Writer)
    \/ get_chunk(Writer)
    \/ get_state_return(Writer)
    \/ \E v \in MixedValues, size \in MixedChunkSizes : set_state_call(Writer, v, size)
    \/ chunk_size_probe(Writer)
    \/ chunk_size_probe_too_large(Writer)
    \/ write_chunk(Writer)
    \/ delete_old_chunks_list(Writer)
    \/ delete_old_chunk(Writer)
    \/ set_state_return(Writer)

\* an empty state path and a store that accepts 4 characters
InitMixed == Init /\ kv_state = EmptyStore /\ max_size = 4

SpecMixed == InitMixed /\ [][NextMixed]_vars

\* fixed fragment sizes that leave no positive cut-off: 0, -1 and -1000
NonPositiveChunkSizes == { MARGIN, MARGIN - 1, 0 }

\* set_state under such a size.  The loop of set_state is then never left,
\* so the steps that follow it do not occur.
NextNonPositive ==
    \/ \E v \in StateValues, size \in NonPositiveChunkSizes :
          set_state_call(Writer, v, size)
    \/ write_chunk(Writer)
    \/ crash(Writer)

SpecNonPositive == InitLock /\ [][NextNonPositive]_vars

\* the codec and the coercion called directly, one call after the other
NextPure ==
    \/ \E o \in JsonValues : pack_call(Writer, o)
    \/ \E text \in Texts : text_call(Writer, text)
    \/ unpack_return(Writer)
    \/ \E url \in Urls, mount \in UrlPaths, path \in UrlPaths, size \in ChunkSizes :
            from_coerced_attrs(Writer, url, mount, path, size)

SpecPure == InitLock /\ [][NextPure]_vars

\* the JSON values Python takes for false
FalsyValues ==
    { JNull, JBool(FALSE), JInt(0), JStr(<<>>), JList(<<>>), JDict(<<>>) }
\* the states written and read back: these and one more of each type
ReadValues ==
    FalsyValues \cup { JBool(TRUE), JInt(42), JStr(<<"a">>), JList(<<JInt(1)>>),
                       JDict(<<<<(<<"a">>), JInt(1)>>>>) }

\* each of these values is written and read back, one call after the other,
\* against a store that accepts 4 characters
NextFalsy ==
    \/ get_state_call(Writer)
    \/ get_chunk_keys(Writer)
    \/ get_chunk(Writer)
    \/ get_state_return(Writer)
    \/ \E v \in ReadValues : set_state_call(Writer, v, AUTO_CHUNK_SIZE)
    \/ chunk_size_probe(Writer)
    \/ chunk_size_probe_too_large(Writer)
    \/ write_chunk(Writer)
    \/ delete_old_chunks_list(Writer)
    \/ delete_old_chunk(Writer)
    \/ set_state_return(Writer)

SpecFalsy == InitMixed /\ [][NextFalsy]_vars

\* the state operations on the base path, one after the other, while the
\* lock of the second instance is taken and released
NextNested ==
    \/ \E m \in LockDatas : lock_call(Locker, "nested_acquire_lock", m)
    \/ lock_call(Locker, "nested_release_lock", NoValue)
    \/ nested_acquire_lock(Locker)
    \/ nested_release_lock(Locker)
    \/ get_state_call(Writer)
    \/ get_chunk_keys(Writer)
    \/ get_chunk(Writer)
    \/ get_state_return(Writer)
    \/ \E v \in MixedValues, size \in MixedChunkSizes : set_state_call(Writer, v, size)
    \/ chunk_size_probe(Writer)
    \/ chunk_size_probe_too_large(Writer)
    \/ write_chunk(Writer)
    \/ delete_old_chunks_list(Writer)
    \/ delete_old_chunk(Writer)
    \/ set_state_return(Writer)

SpecNested == InitMixed /\ [][NextNested]_vars

\* caller c is inside its bracket: it acquired the lock and has not yet
\* released it
Holds(c) ==
    \/ pc[c] \in {"probe", "probe_too_large", "write_chunks", "delete_old_chunks",
                  "release_lock"}
    \/ /\ pc[c] = "idle"
       /\ \/ result[c] = Ok("acquire_lock", NoBody)
          \/ result[c].op = "set_state"
          \/ result[c].op = "release_lock" /\ result[c].status # 200

\* every caller brackets set_state between a successful acquire_lock and
\* its own release_lock, and repeats a release that did not reach the store
NextBracket ==
    \E c \in Callers :
        \/ ~Holds(c) /\ \E m \in LockDatas : lock_call(c, "acquire_lock", m)
        \/ acquire_lock(c)
        \/ /\ result[c] = Ok("acquire_lock", NoBody)
           /\ \E v \in StateValues, size \in ChunkSizes : set_state_call(c, v, size)
        \/ chunk_size_probe(c)
        \/ chunk_size_probe_too_large(c)
        \/ write_chunk(c)
        \/ delete_old_chunks_list(c)
        \/ delete_old_chunk(c)
        \/ set_state_return(c)
        \/ Holds(c) /\ lock_call(c, "release_lock", NoValue)
        \/ release_lock(c)

SpecBracket == InitMixed /\ [][NextBracket]_vars

(***************************************************************************)
(* Properties.                                                             *)
(***************************************************************************)
Idle(c) == pc[c] = "idle"
\* caller c finished operation op and no fault cut it short
Finished(c, op) ==
    /\ Idle(c)
    /\ result[c].op = op
    /\ result[c].exc # <<"HTTPException">> \/ result[c].status # HTTP_502_BAD_GATEWAY
IsDeleted(k) == kv_state[k].deletion_time # ""
DeletedKeys == { k \in DOMAIN kv_state : IsDeleted(k) }
LiveKeys == DOMAIN kv_state \ DeletedKeys

RECURSIVE NumericSorted(_)
\* the keys of a set of decimal texts by ascending integer value
NumericSorted(S) ==
    IF S = {} THEN <<>>
    ELSE LET m == CHOOSE x \in S : \A y \in S : PyInt(x) <= PyInt(y)
         IN  <<m>> \o NumericSorted(S \ {m})

\* the values of the live secrets, concatenated along a sequence of keys
LiveConcat(keys) ==
    LET live == SelectSeq(keys, LAMBDA k : ~IsDeleted(k))
    IN  Flatten([i \in 1..Len(live) |-> kv_state[live[i]].value])

\* C1: lock mutual exclusion.  Between two releases at most one acquire
\* succeeds; an acquire that reaches the store succeeds on an absent lock
\* record and stores its metadata, and otherwise fails with 423 and leaves
\* the record as it is; a release that reaches the store removes the record.
C1_LockMutualExclusion ==
    /\ [](acquired <= 1 /\ (acquired = 1 <=> kv_lock # NoLock))
    /\ [][\A c \in Callers :
            (pc[c] = "acquire_lock" /\ pc'[c] = "idle" /\ faults' = faults) =>
                IF kv_lock = NoLock
                THEN /\ result'[c] = Ok("acquire_lock", NoBody)
                     /\ kv_lock' = lock_data[c]
                ELSE /\ result'[c] = HTTPException("acquire_lock", HTTP_423_LOCKED)
                     /\ kv_lock' = kv_lock]_vars
    /\ [][\A c \in Callers :
            (pc[c] = "release_lock" /\ pc'[c] = "idle" /\ faults' = faults) =>
                kv_lock' = NoLock /\ acquired' = 0]_vars

\* a second acquire was refused while another caller holds the lock
C1_Witness ==
    \E c, d \in Callers :
        /\ c # d
        /\ result[c] = Ok("acquire_lock", NoBody)
        /\ result[d] = HTTPException("acquire_lock", HTTP_423_LOCKED)
        /\ kv_lock # NoLock

\* C2: after a set_state(v) that completed, the next get_state returns v.
C2_SetGetRoundTrip ==
    (Finished(Writer, "get_state") /\ hist.last_set # NoValue) =>
        result[Writer] = Ok("get_state", hist.last_set)

\* fragment i of text cut into pieces of length cut
Fragment(text, cut, i) ==
    SubSeq(text, i * cut + 1, Min((i + 1) * cut, Len(text)))

\* C3: stale-tail truncation.  When set_state returns having written N
\* fragments, every listed key with index >= N is deleted and every index
\* below N holds the live fragment of the new value.
C3_StaleTailTruncated ==
    [][(pc[Writer] = "delete_old_chunks" /\ pc'[Writer] = "idle"
            /\ result'[Writer] = Ok("set_state", NoBody)) =>
        LET N == chunks_done[Writer]
        IN  /\ N >= 1
            /\ \A k \in DOMAIN kv_state' :
                   PyInt(k) >= N => kv_state'[k].deletion_time # ""
            /\ \A i \in 0..(N - 1) :
                   /\ IntStr(i) \in DOMAIN kv_state'
                   /\ kv_state'[IntStr(i)] =
                        Entry(Fragment(packed_state[Writer], cut_off[Writer], i), LIVE)
            /\ N * cut_off[Writer] >= Len(packed_state[Writer])]_vars

\* a shorter state was written over a longer one: its tail is deleted
C3_Witness ==
    /\ Finished(Writer, "set_state")
    /\ result[Writer].status = 200
    /\ Cardinality(LiveKeys) = 3
    /\ Cardinality(DeletedKeys) >= 8

\* C4: get_state joins the live fragments by ascending integer key.
C4_NumericOrder ==
    (Idle(Writer) /\ joined[Writer] # NoText) =>
        joined[Writer] = LiveConcat(NumericSorted(DOMAIN kv_state))

\* C5: the text get_state unpacks is the concatenation, in the order the
\* keys are visited, of the values of the undeleted fragments only.
C5_DeletedContributeNothing ==
    /\ (Idle(Writer) /\ joined[Writer] # NoText) =>
           joined[Writer] = LiveConcat(ListSecrets(kv_state))
    /\ (pc[Writer] = "get_chunks" /\ chunk_keys[Writer] = <<>>) =>
           \A i \in 1..Len(chunks[Writer]) :
               LET ch == chunks[Writer][i]
               IN  ch.value = IF IsDeleted(ch.key) THEN NoText
                              ELSE kv_state[ch.key].value

\* fragments [valid0, deleted1, valid2] were read and joined
C5_Witness ==
    /\ Idle(Writer)
    /\ DOMAIN kv_state = { <<"0">>, <<"1">>, <<"2">> }
    /\ IsDeleted(<<"1">>)
    /\ ~IsDeleted(<<"0">>) /\ ~IsDeleted(<<"2">>)
    /\ joined[Writer] = kv_state[<<"0">>].value \o kv_state[<<"2">>].value

\* C6: with no key under the state path get_state answers 404.
C6_ZeroKeysNotFound ==
    (Finished(Writer, "get_state") /\ DOMAIN kv_state = {}) =>
        result[Writer] = HTTPException("get_state", HTTP_404_NOT_FOUND)

\* C7: with keys under the state path, all of them deleted, get_state
\* returns an empty result.
C7_AllDeletedIsEmpty ==
    (Finished(Writer, "get_state") /\ DOMAIN kv_state # {} /\ LiveKeys = {}) =>
        result[Writer] = Ok("get_state", JDict(<<>>))

RECURSIVE ExpectedProbes(_, _)
\* the probe writes on a text of n characters against a limit: n, n div 2,
\* ... refused down to the first length within the limit, which is accepted
ExpectedProbes(n, limit) ==
    IF n <= limit \/ n = 0
    THEN << [cut_off |-> n, accepted |-> n <= limit] >>
    ELSE << [cut_off |-> n, accepted |-> FALSE] >> \o ExpectedProbes(n \div 2, limit)

ProbeReturned(c) ==
    pc[c] \in {"write_chunks", "delete_old_chunks"} /\ chunk_size[c] = AUTO_CHUNK_SIZE

\* C8: the probe tries len, len div 2, ... in this order, returns the first
\* of them within the limit, and the write of that prefix to fragment 0 is
\* the only probe write the store accepted.
C8_ProbeResult ==
    ProbeReturned(Writer) =>
        LET log == probe_log[Writer]
        IN  /\ log = ExpectedProbes(Len(packed_state[Writer]), max_size)
            /\ log[Len(log)] = [cut_off |-> cut_off[Writer], accepted |-> TRUE]
            /\ cut_off[Writer] <= max_size
            /\ kv_state[<<"0">>] =
                 Entry(SubSeq(packed_state[Writer], 1, cut_off[Writer]), LIVE)

\* the probe returned after the store refused at least two lengths
C8_Witness ==
    /\ ProbeReturned(Writer)
    /\ Len(packed_state[Writer]) > max_size
    /\ Len(probe_log[Writer]) >= 3

\* C9: in auto mode every set_state call comes to an end.
C9_AutoTerminates ==
    (pc[Writer] \in {"probe", "probe_too_large"}) ~> Idle(Writer)

\* C10: after an aborted set_state(v), a set_state(v) that completes leaves
\* exactly the fragments of v, and get_state returns v.
C10_RetrySafe ==
    (Idle(Writer) /\ hist.retry /\ hist.last_set # NoValue) =>
        /\ LiveConcat(NumericSorted(DOMAIN kv_state)) = pack_state(hist.last_set)
        /\ \A k \in LiveKeys, d \in DeletedKeys : PyInt(k) < PyInt(d)
        /\ Finished(Writer, "get_state") =>
               result[Writer] = Ok("get_state", hist.last_set)

\* the envelope of a packed state: the supported tag and the separator
Envelope == FORMAT_VERSION \o <<":">>
\* unpack_state was called on its own by caller c and has ended
Unpacked(c) == Idle(c) /\ result[c].op = "unpack_state"

\* C11: codec round trip.  unpack_state(pack_state(x)) returns x, and
\* pack_state(x) begins with the supported tag followed by ":".
C11_CodecRoundTrip ==
    /\ (Unpacked(Writer) /\ value[Writer] # NoValue) =>
           result[Writer] = Ok("unpack_state", value[Writer])
    /\ (pc[Writer] = "unpack_state" /\ value[Writer] # NoValue) =>
           StartsWith(packed_state[Writer], Envelope)

\* a nested dict went through the codec and came back
C11_Witness ==
    /\ Unpacked(Writer)
    /\ value[Writer] = JDict(<<<<(<<"a">>), JDict(<<<<(<<"a">>), JNull>>>>)>>>>)
    /\ result[Writer].body = value[Writer]

\* the position of the first ":" of a text, 0 when it has none
FirstColon(text) ==
    IF \A i \in 1..Len(text) : text[i] # ":" THEN 0
    ELSE CHOOSE i \in 1..Len(text) :
             text[i] = ":" /\ \A j \in 1..(i - 1) : text[j] # ":"

\* C12: unpack_state of a text without ":" raises MissingFormatVersionError;
\* of a text whose part before the first ":" is not the supported tag,
\* UnsupportedFormatVersionError carrying that part; it decodes nothing else.
C12_EnvelopeChecked ==
    Unpacked(Writer) =>
        LET text  == packed_state[Writer]
            colon == FirstColon(text)
            tag   == SubSeq(text, 1, colon - 1)
        IN  /\ colon = 0 =>
                   result[Writer] =
                     Unhandled("unpack_state", <<"MissingFormatVersionError">>)
            /\ (colon # 0 /\ tag # FORMAT_VERSION) =>
                   result[Writer] =
                     Unhandled("unpack_state",
                               <<"UnsupportedFormatVersionError", tag>>)
            /\ result[Writer].status = 200 => StartsWith(text, Envelope)

\* the tag v9999999 was refused and reported
C12_Witness ==
    /\ Unpacked(Writer)
    /\ result[Writer].exc =
         <<"UnsupportedFormatVersionError",
           <<"v", "9", "9", "9", "9", "9", "9", "9">>>>

\* caller c ends operation op in this step with the outcome Ok
EndsOk(c, op) ==
    pc[c] = op /\ pc'[c] = "idle" /\ result'[c] = Ok(op, NoBody)

\* C13: the lock is not a lease.  While the lock record is present it stays
\* as it is through every step but a release_lock that reaches the store,
\* and no acquire_lock succeeds.
C13_NotALease ==
    [][kv_lock # NoLock =>
        /\ kv_lock' = kv_lock \/ \E c \in Callers : EndsOk(c, "release_lock")
        /\ \A c \in Callers : ~EndsOk(c, "acquire_lock")]_vars

\* with the lock held an acquire was refused while a set_state, after its
\* writes, is about to truncate the tail
C13_Witness ==
    /\ kv_lock # NoLock
    /\ result[Locker] = HTTPException("acquire_lock", HTTP_423_LOCKED)
    /\ pc[Writer] = "delete_old_chunks"
    /\ chunks_done[Writer] >= 2

\* C14: get_lock_data returns the metadata of the lock held, and answers
\* not-found when there is no lock record.
C14_LockDataReflectsRecord ==
    [][\A c \in Callers :
        (pc[c] = "get_lock_data" /\ pc'[c] = "idle" /\ faults' = faults
            /\ result'[c] # NoResult) =>
            result'[c] = IF kv_lock # NoLock
                         THEN Ok("get_lock_data", kv_lock)
                         ELSE HTTPException("get_lock_data", HTTP_404_NOT_FOUND)]_vars

\* C15: the lock record changes only by an acquire_lock that creates it and
\* a release_lock that removes it; the fragments change only by a write or
\* a tail deletion of set_state.
C15_FrameSeparation ==
    [][/\ kv_lock' # kv_lock =>
            \E c \in Callers :
                \/ /\ EndsOk(c, "acquire_lock")
                   /\ kv_lock = NoLock /\ kv_lock' = lock_data[c]
                \/ /\ EndsOk(c, "release_lock")
                   /\ kv_lock' = NoLock
       /\ kv_state' # kv_state =>
            \E c \in Callers :
                /\ pc[c] \in {"probe", "write_chunks", "delete_old_chunks"}
                /\ chunks_done'[c] # chunks_done[c] \/ chunk_keys'[c] # chunk_keys[c]]_vars

\* the lock is held and was read while a state with a truncated tail is
\* stored beside it
C15_Witness ==
    /\ kv_lock # NoLock
    /\ result[Locker] = Ok("get_lock_data", kv_lock)
    /\ result[Writer] = Ok("set_state", NoBody)
    /\ DeletedKeys # {}
    /\ LiveKeys # {}

\* C16: from_coerced_attrs leaves a vault_url that starts with http:// or
\* https:// as it is and puts http:// in front of any other.
C16_UrlCoercion ==
    (Idle(Writer) /\ result[Writer].op = "from_coerced_attrs") =>
        LET given == value[Writer].vault_url
        IN  result[Writer].body.vault_url =
              IF \/ StartsWith(given, <<"h", "t", "t", "p", ":", "/", "/">>)
                 \/ StartsWith(given, HTTPS_SCHEME)
              THEN given
              ELSE <<"h", "t", "t", "p", ":", "/", "/">> \o given

\* the positions a set_state call can be at
SetStatePcs == {"probe", "probe_too_large", "write_chunks", "delete_old_chunks"}
\* the round trip caller c is about to make is refused for its size
Refused(c) ==
    \/ /\ pc[c] = "probe"
       /\ TooLarge(PySlice(packed_state[c], 0, cut_off[c]), max_size)
    \/ /\ pc[c] = "write_chunks"
       /\ chunk_pos[c] < Len(packed_state[c])
       /\ TooLarge(PySlice(packed_state[c], chunk_pos[c], chunk_pos[c] + cut_off[c]),
                   max_size)
\* set_state of caller c ends in this step as a failure, the store untouched
Aborts(c) ==
    /\ pc'[c] = "idle"
    /\ result'[c].op = "set_state"
    /\ result'[c].status # 200
    /\ kv_state' = kv_state

\* C17: set_state goes on after a store error only when a probe write was
\* refused for its size; after any other error it ends at once as a failure
\* and touches the store no more.
C17_OnlyProbeCapacityConsumed ==
    [][pc[Writer] \in SetStatePcs =>
        /\ faults' # faults => Aborts(Writer)
        /\ (Refused(Writer) /\ pc[Writer] = "write_chunks") => Aborts(Writer)
        /\ (Refused(Writer) /\ pc[Writer] = "probe" /\ faults' = faults) =>
               /\ pc'[Writer] = "probe_too_large"
               /\ kv_state' = kv_state
        /\ pc'[Writer] = "probe_too_large" =>
               Refused(Writer) /\ pc[Writer] = "probe"]_vars

\* a fixed-mode fragment write was refused for its size and ended the call
C17_Witness ==
    /\ Idle(Writer)
    /\ result[Writer] = Unhandled("set_state", <<"InternalServerError">>)
    /\ hist.aborted # NoValue

Ceil(a, b) == (a + b - 1) \div b
\* fragments 0..chunks_done-1 of caller c's packed state are stored, cut
\* into pieces of length cut
FragmentsWritten(c, cut) ==
    /\ \A i \in 0..(chunks_done[c] - 1) :
           /\ IntStr(i) \in DOMAIN kv_state
           /\ kv_state[IntStr(i)] = Entry(Fragment(packed_state[c], cut, i), LIVE)
           /\ Len(Fragment(packed_state[c], cut, i)) \in 1..cut
    /\ chunk_pos[c] = chunks_done[c] * cut
    /\ chunk_pos[c] >= Len(packed_state[c]) =>
           /\ chunks_done[c] = Ceil(Len(packed_state[c]), cut)
           /\ Flatten([i \in 1..chunks_done[c] |-> kv_state[IntStr(i - 1)].value])
                = packed_state[c]
\* a step of caller c that changes the fragments while the loop of set_state
\* runs writes the next fragment and nothing else; deletions come after it
WritesInOrder(c, cut) ==
    /\ (pc[c] = "write_chunks" /\ kv_state' # kv_state) =>
           /\ kv_state' = (IntStr(chunks_done[c]) :>
                              Entry(Fragment(packed_state[c], cut, chunks_done[c]), LIVE))
                          @@ kv_state
           /\ chunks_done'[c] = chunks_done[c] + 1
    /\ DeletedKeys' \ DeletedKeys # {} =>
           /\ pc[c] = "delete_old_chunks"
           /\ chunk_pos[c] >= Len(packed_state[c])

\* set_state of caller c runs with a fixed size and a positive cut-off
FixedMode(c) ==
    /\ pc[c] \in {"write_chunks", "delete_old_chunks"}
    /\ chunk_size[c] # AUTO_CHUNK_SIZE
    /\ chunk_size[c] - MARGIN > 0

\* C18: fixed-mode planning.  With cut-off L - 1000 > 0 set_state writes
\* ceil(len/cutoff) fragments, to indices 0..N-1 in ascending order,
\* fragment i being packed[i*cutoff:(i+1)*cutoff], none empty, and deletes
\* nothing before the last of them is written.
C18_FixedModePlanning ==
    /\ [](FixedMode(Writer) =>
             FragmentsWritten(Writer, chunk_size[Writer] - MARGIN))
    /\ [][FixedMode(Writer) =>
             WritesInOrder(Writer, chunk_size[Writer] - MARGIN)]_vars

\* 11 characters were written as fragments of 4, 4 and 3
C18_Witness ==
    /\ FixedMode(Writer)
    /\ pc[Writer] = "delete_old_chunks"
    /\ chunk_size[Writer] - MARGIN = 4
    /\ chunks_done[Writer] = 3
    /\ Len(kv_state[<<"2">>].value) = 3

\* C19: under a fixed size with no positive cut-off set_state writes no
\* fragment.
C19_NonPositiveCutOffRejected ==
    (pc[Writer] = "write_chunks" /\ _get_static_cut_off_(chunk_size[Writer]) <= 0) =>
        chunks_done[Writer] = 0 /\ kv_state = EmptyStore

\* the probe of caller c's set_state returned a cut-off of at least 1
AutoMode(c) ==
    /\ pc[c] \in {"write_chunks", "delete_old_chunks"}
    /\ chunk_size[c] = AUTO_CHUNK_SIZE
    /\ cut_off[c] >= 1

\* C20: auto-mode continuation.  After the probe returned c >= 1, fragment 0
\* is the probe's write and is not written again; packed[c:] follows as
\* fragments 1, 2, ... of length c in ascending order, none longer than c,
\* and the fragments join to the packed text.
C20_AutoModeContinuation ==
    /\ [](AutoMode(Writer) =>
             /\ chunks_done[Writer] >= 1
             /\ cut_off[Writer] <= max_size
             /\ FragmentsWritten(Writer, cut_off[Writer]))
    /\ [][AutoMode(Writer) => WritesInOrder(Writer, cut_off[Writer])]_vars

\* after two refused probes the rest was written as fragments 1, 2, ...
C20_Witness ==
    /\ AutoMode(Writer)
    /\ pc[Writer] = "delete_old_chunks"
    /\ Len(probe_log[Writer]) >= 3
    /\ chunks_done[Writer] >= 3

\* C22: get_state returns the empty object whenever the reassembled text
\* decodes to null, false, 0, an empty string, an empty list or an empty
\* object, and returns the decoded value unchanged in every other case; it
\* returns none of null, false, 0, "" and [].
C22_FalsyBecomesEmptyObject ==
    (Idle(Writer) /\ result[Writer].op = "get_state" /\ joined[Writer] # NoText) =>
        LET o == unpack_state(joined[Writer])
        IN  /\ o.ok =>
                  result[Writer] =
                    Ok("get_state",
                       IF o.value \in FalsyValues THEN JDict(<<>>) ELSE o.value)
            /\ ~o.ok => result[Writer].status # 200
            /\ result[Writer].body \notin FalsyValues \ {JDict(<<>>)}

\* null was stored whole and get_state returned the empty object
C22_Witness ==
    /\ Idle(Writer)
    /\ hist.last_set = JNull
    /\ joined[Writer] = pack_state(JNull)
    /\ result[Writer] = Ok("get_state", JDict(<<>>))

\* the keys listed under the state path that are entries of the second
\* instance
NestedKeys ==
    IF IsFragmentPath(nested_lock_path) THEN {FragmentKey(nested_lock_path)} ELSE {}
\* what the store holds for the second instance
NestedEntries(secrets) ==
    [k \in NestedKeys \cap DOMAIN secrets |-> secrets[k]]

\* C23: isolation between base paths.  With a second base path that is the
\* state path of the first, no state operation on the first lists or reads
\* an entry of the second as a fragment, none overwrites or deletes one,
\* and none fails on one.
C23_BasePathIsolation ==
    /\ [](\A c \in {Writer} :
            /\ \A i \in 1..Len(chunk_keys[c]) : chunk_keys[c][i] \notin NestedKeys
            /\ \A i \in 1..Len(chunks[c]) : chunks[c][i].key \notin NestedKeys
            /\ result[c].exc \notin {<<"KeyError">>, <<"ValueError">>})
    /\ [][NestedEntries(kv_state') # NestedEntries(kv_state) =>
            /\ pc[Locker] \in {"nested_acquire_lock", "nested_release_lock"}
            /\ pc'[Locker] = "idle"]_vars

\* C21: when every caller brackets set_state between a successful
\* acquire_lock and its own release_lock, at most one set_state is in
\* progress at a time and it belongs to the holder of the lock; and once
\* all callers have finished, the last set_state having completed, the
\* fragments under the state path join, as get_state joins them, to the
\* packed text of its value.
C21_LockSerializesWriters ==
    /\ Cardinality({ c \in Callers : pc[c] \in SetStatePcs }) <= 1
    /\ (\E c \in Callers : pc[c] \in SetStatePcs) => kv_lock # NoLock
    /\ ((\A c \in Callers : Idle(c) /\ ~Holds(c)) /\ hist.last_set # NoValue) =>
           /\ kv_lock = NoLock
           /\ unpack_state(LiveConcat(ListSecrets(kv_state)))
                = Returned(hist.last_set)

====
